---- MODULE Spec2Model ----
(***************************************************************************)
(* Model of go-process-controller: the supervisor engine of package        *)
(* gpcprocessmgr (registry, launchers, monitor loop, restart policy,       *)
(* shutdown) together with the part of main that wires the signal handler, *)
(* StartProcessesFromConfig and the final shutdownWaitGroup.Wait().        *)
(*                                                                         *)
(* Every goroutine is a task with a program counter.  Steps that run       *)
(* without the registry lock are separate actions, so that the             *)
(* interleavings the Go scheduler can produce are behaviours of the model. *)
(***************************************************************************)
EXTENDS Integers, Sequences, FiniteSets, TLC

\* ------------------------------------------------------------------------
\* Bounds
\* ------------------------------------------------------------------------
\* largest MaxRestarts value a configured process is given
MaxRestartsCfg == 1
\* number of calls of ShutdownAll in a run in which it is called again
MaxShutdownCalls == 2
\* number of operating-system failures in one run (a start, a kill, a probe of
\* a running process or the creation of a log file that fails)
MaxFaults == 1

\* the latest second of a run, counted from the second in which the first
\* log file is created
MaxSeconds == 1

\* names of the configured processes (keys of gProcRuntimeData)
Procs == {"A", "B"}

\* gpcconfig.ProcessConfig, the fields the engine reads:
\* WaitForExitTimeoutS = 0 is fire-and-forget, > 0 is run-and-wait
NoWaitConfig(n) == [WaitForExitTimeoutS |-> 0, MaxRestarts |-> n]
WaitConfig(n) == [WaitForExitTimeoutS |-> 2, MaxRestarts |-> n]

\* configData.Tasks of a run: no process at all, one process of either kind
\* with every restart budget, a fire-and-forget process beside a run-and-wait
\* process, or two run-and-wait processes
Configs ==
    { [r \in {} |-> NoWaitConfig(0)] }
    \cup
    { [r \in {"A"} |-> c] :
        c \in {NoWaitConfig(n) : n \in 0..MaxRestartsCfg} \cup {WaitConfig(n) : n \in 0..1} }
    \cup
    { [r \in Procs |-> IF r = "A" THEN NoWaitConfig(0) ELSE WaitConfig(0)],
      [r \in Procs |-> WaitConfig(0)] }

\* ------------------------------------------------------------------------
\* Task identities (holders of gRuntimeDatatMux)
\* ------------------------------------------------------------------------
NoTask == <<"none", 0>>
ShutdownTask == <<"shutdown", 0>>
LaunchTask(r, i) == <<r, i>>

\* the lock given back before the child process runs
RunLockHolder_Released(r, i) == NoTask

\* launchProcessAndWait, lines 237-238: Lock() and a deferred Unlock(): the
\* holder of the lock while cmd.Run() waits for the child process
RunLockHolder(r, i) == LaunchTask(r, i)

VARIABLES
    configData,        \* configData.Tasks, by process name
    gProcRuntimeData,  \* the registry: name -> GPCProcRuntimeData
    gStopMon,          \* stop flag of the monitor loop
    gRuntimeDatatMux,  \* task holding the registry lock, or NoTask
    shutdownWaitGroup, \* counter of the WaitGroup
    appEnd,            \* something was sent on channel appEnd
    mainPC,            \* position of main
    mon,               \* monitor goroutine: pc, records left in this scan, record being handled
                       \* ("none" outside the handling of an exit)
    sd,                \* ShutdownAll caller: pc, records left in this pass, record being
                       \* visited ("none" between visits), completed calls, and what the
                       \* latest visit did with killProcess
    taskPC,            \* per process: positions of its launch goroutines (1 = initial, i+1 = i-th restart)
    osAlive,           \* per process: pids of its OS processes that are running
    processState,      \* per process: how the child of its bounded run ended (procCmd.ProcessState)
    logs,              \* per process: one entry per log sink opened, the number of Close() calls on it
    detections,        \* per process: exits detected by the monitor loop
    faults,            \* operating-system failures so far
    panicked,          \* the program died of a nil pointer dereference
    now,               \* the latest reading of time.Now(): its second, counted from the
                       \* second of the first reading that created a log file
    created            \* the file names GetLogFileForProcess has passed to os.Create, in order

vars == <<configData, gProcRuntimeData, gStopMon, gRuntimeDatatMux, shutdownWaitGroup,
          appEnd, mainPC, mon, sd, taskPC, osAlive, processState, logs, detections, faults,
          panicked, now, created>>

\* ------------------------------------------------------------------------
\* Data
\* ------------------------------------------------------------------------
\* a record that is created as done
NewProcRuntimeData_Done ==
    [procCmd |-> FALSE, process |-> 0, procLog |-> 0, pid |-> 0, active |-> FALSE,
     error |-> FALSE, timeout |-> FALSE, done |-> TRUE, restartCount |-> 0]

\* NewProcRuntimeData: procCmd nil, procLog nil, all status fields zero.
\* procCmd is FALSE for nil; process is procCmd.Process.Pid, 0 for a nil
\* Process; procLog is the index of the sink in logs, 0 for nil.
NewProcRuntimeData ==
    [procCmd |-> FALSE, process |-> 0, procLog |-> 0, pid |-> 0, active |-> FALSE,
     error |-> FALSE, timeout |-> FALSE, done |-> FALSE, restartCount |-> 0]

\* the configured process names
Configured == DOMAIN configData

\* the keys of the registry map (empty until StartProcessesFromConfig built it)
Registered == DOMAIN gProcRuntimeData

\* the program is running: main has not returned and nothing has panicked
Live == mainPC # "exited" /\ ~panicked

\* the outcomes of a system call: the regular ones, and the failures while
\* the run's failures are not used up
Outcomes(regular, failures) == IF faults < MaxFaults THEN regular \cup failures ELSE regular

\* checkProcessRunning(pid): OpenProcess fails for a pid that is not running;
\* for a running process it succeeds unless the probe itself fails
checkProcessRunning(r, pid) ==
    IF pid \in osAlive[r] THEN Outcomes({"running"}, {"error"}) ELSE {"error"}

\* the probe of pid failed although the process runs
ProbeFault(r, pid, probe) == pid \in osAlive[r] /\ probe = "error"

\* killProcess(procCmd): taskkill on procCmd.Process.Pid; it kills a running
\* process unless it fails, and fails on a process that is gone
killProcess(r, target) ==
    IF target \in osAlive[r] THEN Outcomes({"killed"}, {"failed"}) ELSE {"failed"}

\* taskkill failed although the process runs
KillFault(r, target, res) == target \in osAlive[r] /\ res = "failed"

\* a Close() that is never made
CloseLog_Skipped(lg, h) == lg

\* procLog.Close(): one more Close() call on sink h (nothing for a nil procLog)
CloseLog(lg, h) ==
    IF h # 0 THEN [lg EXCEPT ![h] = @ + 1] ELSE lg

\* GetLogFileForProcess, lines 441-445: t.Date() and t.Clock() give the time
\* of the call in whole seconds; the file name is made of the log path, the
\* name of the executable and year, month, day, hour, minute and second of the
\* call: two names are equal exactly when executable and second are
outFileName(execName, sec) == <<execName, sec>>

\* time.Now(), cut down to the second: a reading of the clock falls into the
\* second of the reading before or into a later one; seconds are counted from
\* the first log file of the run
Now(cr) == IF cr = <<>> THEN {0} ELSE now..MaxSeconds

\* GetLogFileForProcess(execName) called in second t, lines 439-447:
\* os.Create(outFileName) creates the file, or truncates it when a file of
\* that name exists; cr are the names passed to os.Create so far.  A call
\* that fails creates nothing.
GetLogFileForProcess(cr, execName, t, ok) ==
    IF ok THEN Append(cr, outFileName(execName, t)) ELSE cr

\* doProcessSettings, lines 292-301: GetLogFileForProcess creates a new sink;
\* when that works it is stored in procLog, otherwise procLog keeps its value
OpenedLogs(lg, ok) == IF ok THEN Append(lg, 0) ELSE lg
NewProcLog(lg, old, ok) == IF ok THEN Len(lg) + 1 ELSE old

\* the budget test with the comparison off by one
RestartAllowed_OffByOne(rd, cfg) == rd.restartCount <= cfg.MaxRestarts

\* monitorProcesses, line 162: the restart budget test
RestartAllowed(rd, cfg) == rd.restartCount < cfg.MaxRestarts

\* the restart policy without the branch that sets the error flag
RestartPolicy_NoGiveUp(rd, cfg) ==
    IF cfg.MaxRestarts > 0 /\ RestartAllowed(rd, cfg) THEN "restart" ELSE "none"

\* the restart policy without the test for a configured restart
RestartPolicy_NoZeroTest(rd, cfg) ==
    IF RestartAllowed(rd, cfg) THEN "restart" ELSE "giveup"

\* monitorProcesses, lines 161-175: what follows a detected exit: nothing when
\* no restart is configured, a restart goroutine while the budget lasts, the
\* error flag when it is used up
RestartPolicy(rd, cfg) ==
    IF cfg.MaxRestarts > 0
    THEN IF RestartAllowed(rd, cfg) THEN "restart" ELSE "giveup"
    ELSE "none"

\* a monitor that probes records of either kind
MonitorCond_AnyKind(rd, cfg) == rd.procCmd /\ rd.active

\* a monitor that probes every fire-and-forget record that has a command
MonitorCond_IgnoreActive(rd, cfg) == cfg.WaitForExitTimeoutS < 1 /\ rd.procCmd

\* monitorProcesses, lines 141-143: the records the monitor probes
MonitorCond(rd, cfg) ==
    cfg.WaitForExitTimeoutS < 1 /\ rd.procCmd /\ rd.active

\* the monitor after a record: the next record, or the end of the scan and
\* the sleep of line 182
AfterVisit(todo) == IF todo = {} THEN "loop" ELSE "scan"

\* ------------------------------------------------------------------------
\* Initial state: main has registered its signal handler and read the config
\* ------------------------------------------------------------------------
Init ==
    /\ configData \in Configs
    /\ gProcRuntimeData = [r \in {} |-> NewProcRuntimeData]
    /\ gStopMon = FALSE
    /\ gRuntimeDatatMux = NoTask
    /\ shutdownWaitGroup = 0
    /\ appEnd = FALSE
    /\ mainPC = "start"
    /\ mon = [pc |-> "none", todo |-> {}, cur |-> "none"]
    /\ sd = [pc |-> "idle", todo |-> {}, cur |-> "none", calls |-> 0, kill |-> "none"]
    /\ taskPC = [r \in Procs |-> <<>>]
    /\ osAlive = [r \in Procs |-> {}]
    /\ processState = [r \in Procs |-> "none"]
    /\ logs = [r \in Procs |-> <<>>]
    /\ detections = [r \in Procs |-> 0]
    /\ faults = 0
    /\ panicked = FALSE
    /\ now = 0
    /\ created = <<>>

\* ------------------------------------------------------------------------
\* main and StartProcessesFromConfig
\* ------------------------------------------------------------------------
\* StartProcessesFromConfig, lines 75-82: build the registry under the lock
BuildRegistry ==
    /\ Live /\ mainPC = "start"
    /\ gRuntimeDatatMux = NoTask
    /\ gProcRuntimeData' = [r \in Configured |-> NewProcRuntimeData]
    /\ mainPC' = "resetStop"
    /\ UNCHANGED <<configData, gStopMon, gRuntimeDatatMux, shutdownWaitGroup, appEnd, mon, sd,
                   taskPC, osAlive, processState, logs, detections, faults, panicked, now,
                   created>>

\* StartProcessesFromConfig, lines 85-87: gStopMon = false
ResetStopFlag ==
    /\ Live /\ mainPC = "resetStop"
    /\ gStopMon' = FALSE
    /\ mainPC' = "spawn"
    /\ UNCHANGED <<configData, gProcRuntimeData, gRuntimeDatatMux, shutdownWaitGroup, appEnd,
                   mon, sd, taskPC, osAlive, processState, logs, detections, faults, panicked,
                   now, created>>

\* StartProcessesFromConfig, lines 89-127: start the monitor goroutine and one
\* launch goroutine per record (each begins with its start delay)
SpawnTasks ==
    /\ Live /\ mainPC = "spawn"
    /\ mon' = [mon EXCEPT !.pc = "add"]
    /\ taskPC' = [r \in Procs |-> IF r \in Registered THEN <<"delay">> ELSE <<>>]
    /\ mainPC' = "waitAppEnd"
    /\ UNCHANGED <<configData, gProcRuntimeData, gStopMon, gRuntimeDatatMux, shutdownWaitGroup,
                   appEnd, sd, osAlive, processState, logs, detections, faults, panicked, now,
                   created>>

\* main, lines 102-105: <-appEnd, then shutdownWaitGroup.Wait() returns when
\* the counter is 0; main returns and the program ends
MainWait ==
    /\ Live /\ mainPC = "waitAppEnd"
    /\ appEnd
    /\ shutdownWaitGroup = 0
    /\ mainPC' = "exited"
    /\ UNCHANGED <<configData, gProcRuntimeData, gStopMon, gRuntimeDatatMux, shutdownWaitGroup,
                   appEnd, mon, sd, taskPC, osAlive, processState, logs, detections, faults,
                   panicked, now, created>>

\* ------------------------------------------------------------------------
\* monitorProcesses (no lock is taken anywhere in it)
\* ------------------------------------------------------------------------
\* goroutine of lines 89-93: shutdownWaitGroup.Add(1), enter monitorProcesses
MonAdd ==
    /\ Live /\ mon.pc = "add"
    /\ shutdownWaitGroup' = shutdownWaitGroup + 1
    /\ mon' = [mon EXCEPT !.pc = "loop"]
    /\ UNCHANGED <<configData, gProcRuntimeData, gStopMon, gRuntimeDatatMux, appEnd, mainPC,
                   sd, taskPC, osAlive, processState, logs, detections, faults, panicked, now,
                   created>>

\* line 136: the loop condition, read once per iteration (after the sleep of
\* the iteration before).  With the flag set monitorProcesses returns and the
\* goroutine calls shutdownWaitGroup.Done(); otherwise a scan over the
\* registry starts (the order of a map range is arbitrary).  The scan of an
\* empty registry is over at once: the sleep, and the loop condition again.
MonCheckStop ==
    /\ Live /\ mon.pc = "loop"
    /\ IF gStopMon
       THEN /\ mon' = [mon EXCEPT !.pc = "done"]
            /\ shutdownWaitGroup' = shutdownWaitGroup - 1
       ELSE /\ mon' = [mon EXCEPT !.pc = AfterVisit(Registered), !.todo = Registered]
            /\ UNCHANGED shutdownWaitGroup
    /\ UNCHANGED <<configData, gProcRuntimeData, gStopMon, gRuntimeDatatMux, appEnd, mainPC,
                   sd, taskPC, osAlive, processState, logs, detections, faults, panicked, now,
                   created>>

\* lines 139-149: visit one record; probe it when it is an active no-wait record
MonVisit(r) ==
    /\ Live /\ mon.pc = "scan" /\ r \in mon.todo
    /\ LET rd == gProcRuntimeData[r] IN
       IF MonitorCond(rd, configData[r])
       THEN \E probe \in checkProcessRunning(r, rd.pid) :
              /\ faults' = IF ProbeFault(r, rd.pid, probe) THEN faults + 1 ELSE faults
              /\ IF probe = "error"
                 THEN mon' = [mon EXCEPT !.pc = "exited", !.cur = r]
                 ELSE mon' = [mon EXCEPT !.pc = AfterVisit(mon.todo \ {r}), !.todo = @ \ {r}]
       ELSE /\ mon' = [mon EXCEPT !.pc = AfterVisit(mon.todo \ {r}), !.todo = @ \ {r}]
            /\ UNCHANGED faults
    /\ UNCHANGED <<configData, gProcRuntimeData, gStopMon, gRuntimeDatatMux, shutdownWaitGroup,
                   appEnd, mainPC, sd, taskPC, osAlive, processState, logs, detections,
                   panicked, now, created>>

\* lines 150-176: the process has exited: active = false, close the log file,
\* then the restart policy: start a restart goroutine, or set the error flag
\* when the budget is used up
MonExited ==
    /\ Live /\ mon.pc = "exited"
    /\ LET r == mon.cur
           rd == gProcRuntimeData[r]
           cfg == configData[r]
           policy == RestartPolicy(rd, cfg)
       IN /\ gProcRuntimeData' = [gProcRuntimeData EXCEPT
                 ![r].active = FALSE,
                 ![r].error = IF policy = "giveup" THEN TRUE ELSE @]
          /\ logs' = [logs EXCEPT ![r] = CloseLog(@, rd.procLog)]
          /\ taskPC' = IF policy = "restart"
                       THEN [taskPC EXCEPT ![r] = Append(@, "spawned")]
                       ELSE taskPC
          /\ detections' = [detections EXCEPT ![r] = @ + 1]
          /\ mon' = [mon EXCEPT !.pc = AfterVisit(mon.todo \ {r}), !.todo = @ \ {r},
                                !.cur = "none"]
    /\ UNCHANGED <<configData, gStopMon, gRuntimeDatatMux, shutdownWaitGroup, appEnd, mainPC,
                   sd, osAlive, processState, faults, panicked, now, created>>

\* ------------------------------------------------------------------------
\* ShutdownAll
\* ------------------------------------------------------------------------
\* main, lines 58-61, and ShutdownAll, lines 32-35: a signal arrives, main's
\* signal goroutine calls ShutdownAll: gStopMon = true
SdSetStop ==
    /\ Live /\ sd.pc = "idle"
    /\ gStopMon' = TRUE
    /\ sd' = [sd EXCEPT !.pc = "lock"]
    /\ UNCHANGED <<configData, gProcRuntimeData, gRuntimeDatatMux, shutdownWaitGroup, appEnd,
                   mainPC, mon, taskPC, osAlive, processState, logs, detections, faults,
                   panicked, now, created>>

\* lines 38-41: gRuntimeDatatMux.Lock(), begin the pass over the registry
SdLock ==
    /\ Live /\ sd.pc = "lock"
    /\ gRuntimeDatatMux = NoTask
    /\ gRuntimeDatatMux' = ShutdownTask
    /\ sd' = [sd EXCEPT !.pc = "pass", !.todo = Registered]
    /\ UNCHANGED <<configData, gProcRuntimeData, gStopMon, shutdownWaitGroup, appEnd, mainPC,
                   mon, taskPC, osAlive, processState, logs, detections, faults, panicked, now,
                   created>>

\* a pass that a failed kill ends
PassRest_AbortOnFail(todo, r, res) == IF res = "failed" THEN {} ELSE todo \ {r}

\* lines 41-64, the range loop: the records left in the pass after the visit
\* of r; the result of killProcess is only logged (lines 53-56)
PassRest(todo, r, res) == todo \ {r}

\* the positions of ShutdownAll inside the visit of a record
InVisit == {"kill", "inactive", "close"}

\* line 45, one record of the range loop: probe the pid of the record.  The
\* probe finds the process: on to killProcess; it fails: nothing to kill.
SdProbe(r) ==
    /\ Live /\ sd.pc = "pass" /\ r \in sd.todo
    /\ LET rd == gProcRuntimeData[r] IN
       \E probe \in checkProcessRunning(r, rd.pid) :
          /\ faults' = IF ProbeFault(r, rd.pid, probe) THEN faults + 1 ELSE faults
          /\ sd' = [sd EXCEPT !.pc = IF probe = "running" THEN "kill" ELSE "inactive",
                              !.cur = r, !.kill = "none"]
    /\ UNCHANGED <<configData, gProcRuntimeData, gStopMon, gRuntimeDatatMux, shutdownWaitGroup,
                   appEnd, mainPC, mon, taskPC, osAlive, processState, logs, detections,
                   panicked, now, created>>

\* lines 53-56 and killProcess: procCmd.Process is dereferenced (the program
\* dies when it is nil), taskkill runs on its pid and ShutdownAll waits for
\* it; the result is only logged
SdKill ==
    /\ Live /\ sd.pc = "kill"
    /\ LET r == sd.cur
           rd == gProcRuntimeData[r]
       IN IF rd.process = 0
          THEN /\ panicked' = TRUE
               /\ UNCHANGED <<osAlive, faults, sd>>
          ELSE /\ \E res \in killProcess(r, rd.process) :
                    /\ osAlive' = [osAlive EXCEPT ![r] =
                                      IF res = "killed" THEN @ \ {rd.process} ELSE @]
                    /\ faults' = IF KillFault(r, rd.process, res) THEN faults + 1 ELSE faults
                    /\ sd' = [sd EXCEPT !.pc = "inactive", !.kill = res]
               /\ UNCHANGED panicked
    /\ UNCHANGED <<configData, gProcRuntimeData, gStopMon, gRuntimeDatatMux, shutdownWaitGroup,
                   appEnd, mainPC, mon, taskPC, processState, logs, detections, now, created>>

\* line 60: active = false
SdSetInactive ==
    /\ Live /\ sd.pc = "inactive"
    /\ gProcRuntimeData' = [gProcRuntimeData EXCEPT ![sd.cur].active = FALSE]
    /\ sd' = [sd EXCEPT !.pc = "close"]
    /\ UNCHANGED <<configData, gStopMon, gRuntimeDatatMux, shutdownWaitGroup, appEnd, mainPC,
                   mon, taskPC, osAlive, processState, logs, detections, faults, panicked, now,
                   created>>

\* lines 61-64: close the log file of the record; on to the next record
SdClose ==
    /\ Live /\ sd.pc = "close"
    /\ logs' = [logs EXCEPT ![sd.cur] = CloseLog(@, gProcRuntimeData[sd.cur].procLog)]
    /\ sd' = [sd EXCEPT !.pc = "pass", !.todo = PassRest(@, sd.cur, sd.kill), !.cur = "none"]
    /\ UNCHANGED <<configData, gProcRuntimeData, gStopMon, gRuntimeDatatMux, shutdownWaitGroup,
                   appEnd, mainPC, mon, taskPC, osAlive, processState, detections, faults,
                   panicked, now, created>>

\* lines 39, 66-67: the range loop is over, the deferred Unlock, ShutdownAll
\* returns
SdReturn ==
    /\ Live /\ sd.pc = "pass" /\ sd.todo = {}
    /\ gRuntimeDatatMux' = NoTask
    /\ sd' = [sd EXCEPT !.pc = "returned", !.calls = @ + 1, !.kill = "none"]
    /\ UNCHANGED <<configData, gProcRuntimeData, gStopMon, shutdownWaitGroup, appEnd, mainPC,
                   mon, taskPC, osAlive, processState, logs, detections, faults, panicked, now,
                   created>>

\* main, line 62: the signal goroutine, back from its call of ShutdownAll,
\* sends on appEnd
SendAppEnd ==
    /\ Live /\ sd.calls >= 1 /\ ~appEnd
    /\ appEnd' = TRUE
    /\ UNCHANGED <<configData, gProcRuntimeData, gStopMon, gRuntimeDatatMux, shutdownWaitGroup,
                   mainPC, mon, sd, taskPC, osAlive, processState, logs, detections, faults,
                   panicked, now, created>>

\* ShutdownAll, lines 32-35, called again after an earlier call has returned
\* (the program itself makes one call): gStopMon = true
SdAgain ==
    /\ Live /\ sd.pc = "returned"
    /\ sd.calls < MaxShutdownCalls
    /\ gStopMon' = TRUE
    /\ sd' = [sd EXCEPT !.pc = "lock"]
    /\ UNCHANGED <<configData, gProcRuntimeData, gRuntimeDatatMux, shutdownWaitGroup, appEnd,
                   mainPC, mon, taskPC, osAlive, processState, logs, detections, faults,
                   panicked, now, created>>
\* ------------------------------------------------------------------------
\* Launch goroutines
\* ------------------------------------------------------------------------
IsTask(r, i) == r \in Procs /\ i \in 1..Len(taskPC[r])

SetPC(r, i, pc) == [taskPC EXCEPT ![r][i] = pc]

\* goroutines of lines 99-110 and 113-124: the start delay is over,
\* shutdownWaitGroup.Add(1), call the launcher
LaunchAdd(r, i) ==
    /\ Live /\ IsTask(r, i) /\ taskPC[r][i] = "delay"
    /\ shutdownWaitGroup' = shutdownWaitGroup + 1
    /\ taskPC' = SetPC(r, i, "lock")
    /\ UNCHANGED <<configData, gProcRuntimeData, gStopMon, gRuntimeDatatMux, appEnd, mainPC,
                   mon, sd, osAlive, processState, logs, detections, faults, panicked, now,
                   created>>

\* a restart that is not counted
CountRestart_Skipped(rd) == rd

\* restart goroutine, line 164: restartCount++
CountRestart(rd) == [rd EXCEPT !.restartCount = @ + 1]

\* restart goroutine, lines 163-167: restartCount++, shutdownWaitGroup.Add(1),
\* call launchProcess
RestartBegin(r, i) ==
    /\ Live /\ IsTask(r, i) /\ taskPC[r][i] = "spawned"
    /\ gProcRuntimeData' = [gProcRuntimeData EXCEPT ![r] = CountRestart(@)]
    /\ shutdownWaitGroup' = shutdownWaitGroup + 1
    /\ taskPC' = SetPC(r, i, "lock")
    /\ UNCHANGED <<configData, gStopMon, gRuntimeDatatMux, appEnd, mainPC, mon, sd, osAlive,
                   processState, logs, detections, faults, panicked, now, created>>

\* launchProcess, lines 207-208: Lock() and at once Unlock(); the rest of the
\* function runs without the lock
LpLock(r, i) ==
    /\ Live /\ IsTask(r, i) /\ taskPC[r][i] = "lock"
    /\ configData[r].WaitForExitTimeoutS = 0
    /\ gRuntimeDatatMux = NoTask
    /\ taskPC' = SetPC(r, i, "cmd")
    /\ UNCHANGED <<configData, gProcRuntimeData, gStopMon, gRuntimeDatatMux, shutdownWaitGroup,
                   appEnd, mainPC, mon, sd, osAlive, processState, logs, detections, faults,
                   panicked, now, created>>

\* launchProcess, lines 213-214: procCmd = exec.Command(...) (its Process is
\* nil), doProcessSettings creates the log file of this second and stores the
\* open sink in procLog
LpCmd(r, i) ==
    /\ Live /\ IsTask(r, i) /\ taskPC[r][i] = "cmd"
    /\ \E ok \in Outcomes({TRUE}, {FALSE}), t \in Now(created) :
         /\ gProcRuntimeData' = [gProcRuntimeData EXCEPT
                ![r].procCmd = TRUE, ![r].process = 0,
                ![r].procLog = NewProcLog(logs[r], @, ok)]
         /\ logs' = [logs EXCEPT ![r] = OpenedLogs(@, ok)]
         /\ now' = t
         /\ created' = GetLogFileForProcess(created, r, t, ok)
         /\ faults' = IF ok THEN faults ELSE faults + 1
    /\ taskPC' = SetPC(r, i, "start")
    /\ UNCHANGED <<configData, gStopMon, gRuntimeDatatMux, shutdownWaitGroup, appEnd, mainPC,
                   mon, sd, osAlive, processState, detections, panicked>>

\* launchProcess, lines 216-223: procCmd.Start(); on an error the error flag
\* is set, otherwise pid = procCmd.Process.Pid (the pid of the i-th launch is i)
LpStart(r, i) ==
    /\ Live /\ IsTask(r, i) /\ taskPC[r][i] = "start"
    /\ \E ok \in Outcomes({TRUE}, {FALSE}) :
         IF ok
         THEN /\ osAlive' = [osAlive EXCEPT ![r] = @ \cup {i}]
              /\ gProcRuntimeData' = [gProcRuntimeData EXCEPT ![r].process = i, ![r].pid = i]
              /\ taskPC' = SetPC(r, i, "active")
              /\ UNCHANGED faults
         ELSE /\ gProcRuntimeData' = [gProcRuntimeData EXCEPT ![r].error = TRUE]
              /\ taskPC' = SetPC(r, i, "failed")
              /\ faults' = faults + 1
              /\ UNCHANGED osAlive
    /\ UNCHANGED <<configData, gStopMon, gRuntimeDatatMux, shutdownWaitGroup, appEnd, mainPC,
                   mon, sd, processState, logs, detections, panicked, now, created>>

\* launchProcess, line 224: active = true
LpActive(r, i) ==
    /\ Live /\ IsTask(r, i) /\ taskPC[r][i] = "active"
    /\ gProcRuntimeData' = [gProcRuntimeData EXCEPT ![r].active = TRUE]
    /\ taskPC' = SetPC(r, i, "release")
    /\ UNCHANGED <<configData, gStopMon, gRuntimeDatatMux, shutdownWaitGroup, appEnd, mainPC,
                   mon, sd, osAlive, processState, logs, detections, faults, panicked, now,
                   created>>

\* launchProcess, lines 226-229: procCmd.Process.Release() dereferences the
\* Process of the record's current procCmd (nil when Start() failed or has
\* not run on it); then launchProcess returns and the goroutine calls Done()
LpRelease(r, i) ==
    /\ Live /\ IsTask(r, i) /\ taskPC[r][i] \in {"release", "failed"}
    /\ IF gProcRuntimeData[r].process = 0
       THEN /\ panicked' = TRUE
            /\ UNCHANGED <<shutdownWaitGroup, taskPC>>
       ELSE /\ shutdownWaitGroup' = shutdownWaitGroup - 1
            /\ taskPC' = SetPC(r, i, "done")
            /\ UNCHANGED panicked
    /\ UNCHANGED <<configData, gProcRuntimeData, gStopMon, gRuntimeDatatMux, appEnd, mainPC,
                   mon, sd, osAlive, processState, logs, detections, faults, now, created>>

\* how the child of a bounded run ends once it has started: it exits with
\* status 0, it exits with another status, or the deadline kills it
RunResults == {"exit0", "exitN", "timeout"}

\* a Run() that never returns an ExitError
IsExitError_Never(res) == FALSE

\* what cmd.Run() returns for a child that ended as res: nil for exit status
\* 0, an *exec.ExitError for every other end (lines 260-266)
IsExitError(res) == res # "exit0"

\* a launcher that reports every return of Run() as a finished run
RunStatus_AlwaysDone(rd, res) == [rd EXCEPT !.active = TRUE, !.done = TRUE]

\* launchProcessAndWait, lines 258-277: the status written after Run() has
\* returned.  active = true in every case; the process could not be started
\* ("nostart", an error that is not an ExitError): error = true; an ExitError:
\* timeout = true and done = true; no error: done = true
RunStatus(rd, res) ==
    IF res = "nostart"
    THEN [rd EXCEPT !.active = TRUE, !.error = TRUE]
    ELSE [rd EXCEPT !.active = TRUE,
                    !.timeout = IF IsExitError(res) THEN TRUE ELSE @,
                    !.done = TRUE]

\* launchProcessAndWait, lines 237-257: Lock() (held until the function
\* returns), procCmd = exec.CommandContext(...), doProcessSettings creates the
\* log file, and Run() starts the process.  When the start fails Run() returns
\* at once with an error that is not an ExitError: active = true, error = true
\* (lines 258-265), and the function returns through the deferred Unlock.
LwBegin(r, i) ==
    /\ Live /\ IsTask(r, i) /\ taskPC[r][i] = "lock"
    /\ configData[r].WaitForExitTimeoutS > 0
    /\ gRuntimeDatatMux = NoTask
    /\ \E out \in Outcomes({"ok"}, {"nolog", "nostart"}), t \in Now(created) :
         LET logOk == out # "nolog" IN
         /\ logs' = [logs EXCEPT ![r] = OpenedLogs(@, logOk)]
         /\ now' = t
         /\ created' = GetLogFileForProcess(created, r, t, logOk)
         /\ faults' = IF out = "ok" THEN faults ELSE faults + 1
         /\ IF out # "nostart"
            THEN /\ gProcRuntimeData' = [gProcRuntimeData EXCEPT
                        ![r].procCmd = TRUE, ![r].process = i,
                        ![r].procLog = NewProcLog(logs[r], @, logOk)]
                 /\ osAlive' = [osAlive EXCEPT ![r] = @ \cup {i}]
                 /\ gRuntimeDatatMux' = RunLockHolder(r, i)
                 /\ taskPC' = SetPC(r, i, "run")
            ELSE /\ gProcRuntimeData' = [gProcRuntimeData EXCEPT ![r] =
                        RunStatus([@ EXCEPT !.procCmd = TRUE, !.process = 0,
                                            !.procLog = NewProcLog(logs[r], @, logOk)],
                                  "nostart")]
                 /\ taskPC' = SetPC(r, i, "returned")
                 /\ UNCHANGED <<osAlive, gRuntimeDatatMux>>
    /\ UNCHANGED <<configData, gStopMon, shutdownWaitGroup, appEnd, mainPC, mon, sd,
                   processState, detections, panicked>>

\* launchProcessAndWait, lines 257-280: Run() returns because the process
\* exited (status 0 or not) or because the deadline killed it.  active = true;
\* nil error: done = true; an ExitError: timeout = true and done = true.  Then
\* the function returns through the deferred Unlock.
LwRunEnd(r, i) ==
    /\ Live /\ IsTask(r, i) /\ taskPC[r][i] = "run"
    /\ \E res \in RunResults :
         /\ gProcRuntimeData' = [gProcRuntimeData EXCEPT ![r] = RunStatus(@, res)]
         /\ processState' = [processState EXCEPT ![r] = res]
    /\ osAlive' = [osAlive EXCEPT ![r] = @ \ {i}]
    /\ gRuntimeDatatMux' = NoTask
    /\ taskPC' = SetPC(r, i, "returned")
    /\ UNCHANGED <<configData, gStopMon, shutdownWaitGroup, appEnd, mainPC, mon, sd, logs,
                   detections, faults, panicked, now, created>>

\* goroutine of lines 99-110, line 109: launchProcessAndWait has returned,
\* shutdownWaitGroup.Done()
LwDone(r, i) ==
    /\ Live /\ IsTask(r, i) /\ taskPC[r][i] = "returned"
    /\ shutdownWaitGroup' = shutdownWaitGroup - 1
    /\ taskPC' = SetPC(r, i, "done")
    /\ UNCHANGED <<configData, gProcRuntimeData, gStopMon, gRuntimeDatatMux, appEnd, mainPC,
                   mon, sd, osAlive, processState, logs, detections, faults, panicked, now,
                   created>>

\* ------------------------------------------------------------------------
\* Environment
\* ------------------------------------------------------------------------
\* a running fire-and-forget process exits on its own
ProcExit(r, p) ==
    /\ Live /\ r \in Configured /\ p \in osAlive[r]
    /\ configData[r].WaitForExitTimeoutS = 0
    /\ osAlive' = [osAlive EXCEPT ![r] = @ \ {p}]
    /\ UNCHANGED <<configData, gProcRuntimeData, gStopMon, gRuntimeDatatMux, shutdownWaitGroup,
                   appEnd, mainPC, mon, sd, taskPC, processState, logs, detections, faults,
                   panicked, now, created>>

\* ------------------------------------------------------------------------
\* The program
\* ------------------------------------------------------------------------
\* the launch goroutines of a record: the initial one and one per restart the
\* monitor may spawn; one more, so that a goroutine beyond the budget would run
TaskIds == 1..(MaxRestartsCfg + 2)

Next ==
    \/ BuildRegistry
    \/ ResetStopFlag
    \/ SpawnTasks
    \/ MainWait
    \/ MonAdd
    \/ MonCheckStop
    \/ \E r \in Procs : MonVisit(r)
    \/ MonExited
    \/ SdSetStop
    \/ SdLock
    \/ \E r \in Procs : SdProbe(r)
    \/ SdKill
    \/ SdSetInactive
    \/ SdClose
    \/ SdReturn
    \/ SendAppEnd
    \/ \E r \in Procs, i \in TaskIds : LaunchAdd(r, i)
    \/ \E r \in Procs, i \in TaskIds : RestartBegin(r, i)
    \/ \E r \in Procs, i \in TaskIds : LpLock(r, i)
    \/ \E r \in Procs, i \in TaskIds : LpCmd(r, i)
    \/ \E r \in Procs, i \in TaskIds : LpStart(r, i)
    \/ \E r \in Procs, i \in TaskIds : LpActive(r, i)
    \/ \E r \in Procs, i \in TaskIds : LpRelease(r, i)
    \/ \E r \in Procs, i \in TaskIds : LwBegin(r, i)
    \/ \E r \in Procs, i \in TaskIds : LwRunEnd(r, i)
    \/ \E r \in Procs, i \in TaskIds : LwDone(r, i)
    \/ \E r \in Procs, p \in TaskIds : ProcExit(r, p)

Spec == Init /\ [][Next]_vars

\* ------------------------------------------------------------------------
\* ShutdownAll called more than once
\* ------------------------------------------------------------------------
\* a run with at most one configured process
InitOne == Init /\ Cardinality(Configured) <= 1

AgainNext == Next \/ SdAgain

AgainSpec == InitOne /\ [][AgainNext]_vars

\* ------------------------------------------------------------------------
\* Fair scheduling
\* ------------------------------------------------------------------------
\* the steps of main, of the monitor goroutine, of a ShutdownAll call that has
\* begun (and the send on appEnd that follows the signal goroutine's call),
\* and of one launch goroutine
MainStep == BuildRegistry \/ ResetStopFlag \/ SpawnTasks \/ MainWait
MonStep == MonAdd \/ MonCheckStop \/ (\E r \in Procs : MonVisit(r)) \/ MonExited
SdStep ==
    \/ SdLock \/ (\E r \in Procs : SdProbe(r)) \/ SdKill \/ SdSetInactive \/ SdClose
    \/ SdReturn \/ SendAppEnd
TaskStep(r, i) ==
    \/ LaunchAdd(r, i) \/ RestartBegin(r, i)
    \/ LpLock(r, i) \/ LpCmd(r, i) \/ LpStart(r, i) \/ LpActive(r, i) \/ LpRelease(r, i)
    \/ LwBegin(r, i) \/ LwRunEnd(r, i) \/ LwDone(r, i)

\* the Go scheduler runs every goroutine that can run, a sleep and a bounded
\* run end, and every child process ends; a signal may or may not arrive
Fairness ==
    /\ WF_vars(MainStep)
    /\ WF_vars(MonStep)
    /\ WF_vars(SdStep)
    /\ \A r \in Procs, i \in TaskIds : WF_vars(TaskStep(r, i))
    /\ \A r \in Procs, p \in TaskIds : WF_vars(ProcExit(r, p))

FairSpec == Spec /\ Fairness

\* ------------------------------------------------------------------------
\* Shape of the state
\* ------------------------------------------------------------------------
TypeOK ==
    /\ shutdownWaitGroup \in 0..(1 + Cardinality(Procs) * (MaxRestartsCfg + 1))
    /\ faults \in 0..MaxFaults
    /\ \A r \in Configured : Len(taskPC[r]) <= configData[r].MaxRestarts + 1


\* ------------------------------------------------------------------------
\* Properties
\* ------------------------------------------------------------------------
\* the fire-and-forget records with a restart budget
Restartable == {r \in Registered :
                   configData[r].WaitForExitTimeoutS = 0 /\ configData[r].MaxRestarts > 0}

\* the launch goroutines of r that have called Start()
Launched(r) == {i \in 1..Len(taskPC[r]) : taskPC[r][i] \in {"active", "failed", "release", "done"}}

\* ShutdownAll has returned at least once
ShutdownReturned == sd.calls >= 1

\* the log sinks of r that are open
OpenSinks(r) == {k \in 1..Len(logs[r]) : logs[r][k] = 0}

\* C1: for a fire-and-forget record with MaxRestarts = N > 0 the monitor
\* detects at most N+1 exits and at most N+1 launch goroutines ever exist;
\* once it has detected N+1 exits, restartCount = N, the error flag is set
\* and exactly N+1 launches have been made.
C1_RestartBudget ==
    \A r \in Restartable :
        LET n == configData[r].MaxRestarts IN
        /\ detections[r] <= n + 1
        /\ Len(taskPC[r]) <= n + 1
        /\ detections[r] = n + 1 =>
              /\ gProcRuntimeData[r].restartCount = n
              /\ gProcRuntimeData[r].error
              /\ Cardinality(Launched(r)) = n + 1

\* the monitor has detected the exit of the initial launch and of every
\* restart of a record with the largest budget, every start having succeeded
C1_Witness ==
    \E r \in Restartable :
        /\ configData[r].MaxRestarts = MaxRestartsCfg
        /\ detections[r] = MaxRestartsCfg + 1
        /\ gProcRuntimeData[r].error
        /\ \A i \in 1..Len(taskPC[r]) : taskPC[r][i] \in {"release", "done"}

\* C2: restartCount of a record never exceeds its MaxRestarts and never
\* decreases from one state to the next.
C2_RestartCountBounded ==
    /\ [](\A r \in Registered :
            gProcRuntimeData[r].restartCount <= configData[r].MaxRestarts)
    /\ [][\A r \in Registered :
            gProcRuntimeData'[r].restartCount >= gProcRuntimeData[r].restartCount]_vars

\* a restart goroutine has made the last increment the budget allows, after
\* the monitor tested the budget in an earlier step
C2_Witness ==
    \E r \in Restartable :
        /\ gProcRuntimeData[r].restartCount = configData[r].MaxRestarts
        /\ configData[r].MaxRestarts = MaxRestartsCfg
        /\ Len(taskPC[r]) = MaxRestartsCfg + 1
        /\ taskPC[r][MaxRestartsCfg + 1] = "lock"

\* C3 (as stated): once ShutdownAll has returned, no record is active.
C3_InactiveAfterShutdown ==
    ShutdownReturned => \A r \in Registered : ~gProcRuntimeData[r].active

\* the tasks that are at a read or write of a record's mutable fields
LaunchAccessing(r, i) == taskPC[r][i] \in {"cmd", "start", "active", "release", "failed", "run"}
MonitorAccessing == mon.pc \in {"scan", "exited"}
ShutdownAccessing == sd.pc \in {"pass"} \cup InVisit

\* C4 (as stated): a task that is at an access to a record's mutable fields
\* holds gRuntimeDatatMux, so no two tasks are at such an access together.
C4_AccessUnderLock ==
    /\ ~MonitorAccessing
    /\ ShutdownAccessing => gRuntimeDatatMux = ShutdownTask
    /\ \A r \in Registered : \A i \in 1..Len(taskPC[r]) :
          LaunchAccessing(r, i) => gRuntimeDatatMux = LaunchTask(r, i)

\* the background tasks that have been started and have not finished
MonitorUnfinished == mon.pc \notin {"none", "done"}
LaunchUnfinished(r, i) == taskPC[r][i] # "done"

\* C5 (as stated): shutdownWaitGroup.Wait() in main does not return while the
\* monitor loop, an initial launch task or a restart task is unfinished.
C5_WaitCoversTasks ==
    mainPC = "exited" =>
        /\ ~MonitorUnfinished
        /\ \A r \in Registered : \A i \in 1..Len(taskPC[r]) : ~LaunchUnfinished(r, i)

\* the supervisor has observed the exit of every process it started for r:
\* the monitor has detected an exit for each launch goroutine of a
\* fire-and-forget record, or Run() has returned for a run-and-wait record
ExitObserved(r) ==
    \/ detections[r] >= 1 /\ detections[r] = Len(taskPC[r])
    \/ gProcRuntimeData[r].done

\* C6 (as stated): no log sink is closed twice, and none is open once the
\* exit of its process has been observed or once shutdown has finished.
C6_SinkClosedOnce ==
    \A r \in Registered :
        /\ \A k \in 1..Len(logs[r]) : logs[r][k] <= 1
        /\ ExitObserved(r) => OpenSinks(r) = {}
        /\ (ShutdownReturned /\ sd.pc = "returned") => OpenSinks(r) = {}

\* C7: a record has at most one open log sink; in particular the sink of the
\* previous launch is closed when a restart opens a new one.
C7_OneOpenSink ==
    \A r \in Registered : Cardinality(OpenSinks(r)) <= 1

\* a restart has opened the second sink of a record and the first is closed
C7_Witness ==
    \E r \in Restartable :
        /\ Len(logs[r]) = 2
        /\ logs[r][1] >= 1
        /\ logs[r][2] = 0
        /\ taskPC[r][2] = "start"

\* C8 (as stated): in a call of ShutdownAll after the first, no kill attempt
\* is made on a record that is inactive, and the visit of an inactive record
\* leaves the fields of the record unchanged.
C8_SecondShutdownIdle ==
    [][(ShutdownReturned /\ sd' # sd) =>
          /\ (sd.pc = "pass" /\ sd'.pc = "kill") => gProcRuntimeData[sd'.cur].active
          /\ (sd.pc \in InVisit /\ ~gProcRuntimeData[sd.cur].active)
                => gProcRuntimeData'[sd.cur] = gProcRuntimeData[sd.cur]]_vars

\* C9 (as stated): a task that is suspended does not hold the registry lock;
\* launchProcessAndWait does not hold it while the child process runs.
C9_NoLockWhileSuspended ==
    \A r \in Registered : \A i \in 1..Len(taskPC[r]) :
        taskPC[r][i] \in {"delay", "spawned", "run"} => gRuntimeDatatMux # LaunchTask(r, i)

\* C9 (amended): a task sleeping on its start delay holds no lock, but
\* launchProcessAndWait holds gRuntimeDatatMux for the whole run of the child
\* process: while a run-and-wait process runs, ShutdownAll does not get the
\* lock and no launcher passes its Lock().
C9_LockHeldAcrossRun ==
    /\ [](\A r \in Registered : \A i \in 1..Len(taskPC[r]) :
            /\ taskPC[r][i] \in {"delay", "spawned"} => gRuntimeDatatMux # LaunchTask(r, i)
            /\ taskPC[r][i] = "run" => gRuntimeDatatMux = LaunchTask(r, i))
    /\ [][(\E r \in Registered : \E i \in 1..Len(taskPC[r]) : taskPC[r][i] = "run")
            => /\ sd.pc = "lock" => sd'.pc = "lock"
               /\ \A q \in Registered : \A j \in 1..Len(taskPC[q]) :
                     taskPC[q][j] = "lock" => taskPC'[q][j] = "lock"]_vars

\* a run-and-wait process runs while ShutdownAll and the launcher of another
\* process wait for the lock
C9_Witness ==
    /\ sd.pc = "lock"
    /\ \E r \in Registered : \E i \in 1..Len(taskPC[r]) : taskPC[r][i] = "run"
    /\ \E q \in Registered : \E j \in 1..Len(taskPC[q]) :
          taskPC[q][j] = "lock" /\ configData[q].WaitForExitTimeoutS = 0

\* C10 (as stated): once ShutdownAll has set the stop flag, the monitor's next
\* check of the loop condition finds it set and monitorProcesses returns
\* without another scan.
C10_StopObserved ==
    [][(sd.pc # "idle" /\ mon.pc = "loop" /\ mon'.pc # "loop") => mon'.pc = "done"]_vars

\* the run-and-wait records
WaitRecords == {r \in Registered : configData[r].WaitForExitTimeoutS > 0}

\* C11: a run-and-wait record has at most one launch goroutine, the monitor
\* detects no exit of it and its restartCount stays 0; the monitor's visit of
\* such a record makes no probe (it cannot fail and finds no exit) and no step
\* of the monitor changes the record.
C11_WaitRunsOnce ==
    /\ [](\A r \in WaitRecords :
            /\ Len(taskPC[r]) <= 1
            /\ detections[r] = 0
            /\ gProcRuntimeData[r].restartCount = 0)
    /\ [][\A r \in WaitRecords :
            /\ mon' # mon => gProcRuntimeData'[r] = gProcRuntimeData[r]
            /\ (mon.pc = "scan" /\ r \in mon.todo /\ r \notin mon'.todo)
                  => faults' = faults /\ mon'.pc # "exited"]_vars

\* the monitor is about to visit a run-and-wait record with a restart budget
\* whose run has ended and left it active
C11_Witness ==
    \E r \in WaitRecords :
        /\ configData[r].MaxRestarts > 0
        /\ gProcRuntimeData[r].done /\ gProcRuntimeData[r].active
        /\ gProcRuntimeData[r].timeout
        /\ mon.pc = "scan" /\ r \in mon.todo

\* C12 (as stated): a run-and-wait record whose process started and exited on
\* its own, with status 0 or with another status, has done = true and
\* timeout = false once launchProcessAndWait has returned.
C12_ExitBeforeDeadline ==
    \A r \in WaitRecords :
        processState[r] \in {"exit0", "exitN"} =>
            gProcRuntimeData[r].done /\ ~gProcRuntimeData[r].timeout

\* C13: a run-and-wait record whose process was killed at its deadline has
\* done = true and timeout = true, its process does not run any more, and no
\* restart of it is ever made: it keeps its one launch goroutine, restartCount
\* 0 and no detected exit.
C13_KilledAtDeadline ==
    \A r \in WaitRecords :
        processState[r] = "timeout" =>
            /\ gProcRuntimeData[r].done /\ gProcRuntimeData[r].timeout
            /\ osAlive[r] = {}
            /\ taskPC[r] \in {<<"returned">>, <<"done">>}
            /\ gProcRuntimeData[r].restartCount = 0
            /\ detections[r] = 0

\* the deadline has killed the process of a record with a restart budget, the
\* launcher has returned, the monitor is running and no shutdown has begun
C13_Witness ==
    \E r \in WaitRecords :
        /\ processState[r] = "timeout"
        /\ configData[r].MaxRestarts > 0
        /\ gRuntimeDatatMux = NoTask
        /\ mon.pc = "loop" /\ ~gStopMon
        /\ sd.pc = "idle"

\* the fire-and-forget records
NoWaitRecords == {r \in Registered : configData[r].WaitForExitTimeoutS = 0}

\* launch goroutine i of r is the only task that is at a dereference of
\* procCmd.Process
OnlyDereference(r, i) ==
    /\ sd.pc # "kill"
    /\ \A q \in Registered : \A j \in 1..Len(taskPC[q]) :
          (taskPC[q][j] \in {"release", "failed"}) => (q = r /\ j = i)

\* C14 (as stated, the refused start): a launchProcess whose Start() failed
\* returns normally: the program does not die in it, and when its goroutine
\* reaches Done() the record has error = true, active = false and, for the
\* initial launch, pid = 0.
C14_FailedStartReturns ==
    [][\A r \in NoWaitRecords : \A i \in 1..Len(taskPC[r]) :
          taskPC[r][i] = "failed" =>
              /\ OnlyDereference(r, i) => ~panicked'
              /\ taskPC'[r][i] = "done" =>
                    /\ gProcRuntimeData'[r].error
                    /\ ~gProcRuntimeData'[r].active
                    /\ i = 1 => gProcRuntimeData'[r].pid = 0]_vars

\* C15 (as stated): a record that is active has its pid set, to the process id
\* of the record's most recent successful start.
C15_ActiveHasPid ==
    \A r \in Registered :
        gProcRuntimeData[r].active =>
            /\ gProcRuntimeData[r].pid # 0
            /\ gProcRuntimeData[r].pid = gProcRuntimeData[r].process

\* C16: after a killProcess that failed, the visit of the record in the
\* ShutdownAll pass goes on: the next step of the pass sets the record
\* inactive, the one after it closes the record's log sink, and the pass goes
\* on with exactly the other records that were left; a pass only returns when
\* no record is left.
C16_KillFailureNotFatal ==
    [][/\ (sd.pc = "kill" /\ sd' # sd) =>
             sd'.pc = "inactive" /\ sd'.cur = sd.cur /\ sd'.todo = sd.todo
       /\ (sd.pc = "inactive" /\ sd.kill = "failed" /\ sd' # sd) =>
             /\ ~gProcRuntimeData'[sd.cur].active
             /\ sd'.pc = "close" /\ sd'.cur = sd.cur /\ sd'.todo = sd.todo
       /\ (sd.pc = "close" /\ sd.kill = "failed" /\ sd' # sd) =>
             /\ gProcRuntimeData[sd.cur].procLog # 0 =>
                   logs'[sd.cur][gProcRuntimeData[sd.cur].procLog] >= 1
             /\ sd'.pc = "pass"
             /\ sd'.todo = sd.todo \ {sd.cur}
       /\ (sd.pc \in {"pass"} \cup InVisit /\ sd'.pc = "returned") =>
             sd.pc = "pass" /\ sd.todo = {}]_vars

\* killProcess has failed on a fire-and-forget record whose process is still
\* running, the visit has set the record inactive and closed its sink, and
\* another record is left in the pass
C16_Witness ==
    /\ sd.pc = "pass" /\ sd.kill = "failed"
    /\ sd.todo # {}
    /\ \E r \in NoWaitRecords \ sd.todo :
          /\ gProcRuntimeData[r].pid \in osAlive[r]
          /\ ~gProcRuntimeData[r].active
          /\ OpenSinks(r) = {}

\* the launch goroutines of r that have set pid and active (line 224 is behind
\* them)
SetActive(r) == {i \in 1..Len(taskPC[r]) : taskPC[r][i] \in {"release", "done"}}

\* C17: whenever the monitor's condition for probing a fire-and-forget record
\* holds, a launch of the record has set pid and active and pid is the pid of
\* the latest such launch; a restart goroutine exists only after the launch
\* before it has set active and the monitor has detected an exit for it, and
\* each detected exit adds at most one restart goroutine.
C17_LaunchBeforeProbe ==
    /\ [](\A r \in NoWaitRecords :
            /\ MonitorCond(gProcRuntimeData[r], configData[r]) =>
                  /\ SetActive(r) # {}
                  /\ gProcRuntimeData[r].pid # 0
                  /\ \A i \in SetActive(r) : i <= gProcRuntimeData[r].pid
            /\ Len(taskPC[r]) <= detections[r] + 1
            /\ \A i \in 2..Len(taskPC[r]) : (i - 1) \in SetActive(r))
    /\ [][\A r \in NoWaitRecords :
            (Len(taskPC[r]) >= 1 /\ Len(taskPC'[r]) # Len(taskPC[r])) =>
                /\ Len(taskPC'[r]) = Len(taskPC[r]) + 1
                /\ detections'[r] = detections[r] + 1]_vars

\* the restart of a record has set pid and active and the monitor is about to
\* probe the record again
C17_Witness ==
    \E r \in NoWaitRecords :
        /\ Len(taskPC[r]) = 2 /\ 2 \in SetActive(r)
        /\ gProcRuntimeData[r].pid = 2
        /\ MonitorCond(gProcRuntimeData[r], configData[r])
        /\ mon.pc = "scan" /\ r \in mon.todo

\* the fire-and-forget records without a restart budget
NoRestartRecords == {r \in NoWaitRecords : configData[r].MaxRestarts = 0}

\* C18: when the monitor handles the detected exit of a fire-and-forget record
\* with MaxRestarts = 0, the only field of the record it changes is active,
\* which becomes false, and it starts no goroutine; such a record never has a
\* second launch goroutine and its restartCount stays 0.
C18_NoRestartConfigured ==
    /\ [](\A r \in NoRestartRecords :
            Len(taskPC[r]) <= 1 /\ gProcRuntimeData[r].restartCount = 0)
    /\ [][\A r \in NoRestartRecords :
            (mon.pc = "exited" /\ mon.cur = r /\ mon' # mon) =>
                /\ gProcRuntimeData'[r] = [gProcRuntimeData[r] EXCEPT !.active = FALSE]
                /\ taskPC' = taskPC]_vars

\* the monitor has detected the exit of a record with MaxRestarts = 0 and has
\* gone on scanning; no shutdown has begun
C18_Witness ==
    \E r \in NoRestartRecords :
        /\ detections[r] = 1
        /\ ~gProcRuntimeData[r].active /\ ~gProcRuntimeData[r].error
        /\ taskPC[r] = <<"done">>
        /\ mon.pc = "scan" /\ sd.pc = "idle" /\ ~panicked

\* the restart goroutines of r that have made their increment and gone on to
\* launchProcess
RestartAttempts(r) == {i \in 2..Len(taskPC[r]) : taskPC[r][i] # "spawned"}

\* C19: restartCount of a fire-and-forget record equals the number of its
\* restart goroutines that have gone on to launchProcess, whatever became of
\* their starts; in particular the failed Start() of the i-th launch (the
\* restart number i - 1) leaves restartCount at i - 1.
C19_AttemptsCounted ==
    /\ [](\A r \in NoWaitRecords :
            gProcRuntimeData[r].restartCount = Cardinality(RestartAttempts(r)))
    /\ [][\A r \in NoWaitRecords : \A i \in 2..Len(taskPC[r]) :
            (taskPC[r][i] = "start" /\ taskPC'[r][i] = "failed") =>
                /\ gProcRuntimeData[r].restartCount = i - 1
                /\ gProcRuntimeData'[r].restartCount = i - 1]_vars

\* the start of the first restart of a record has failed; the restart is counted
C19_Witness ==
    \E r \in NoWaitRecords :
        /\ Len(taskPC[r]) = 2 /\ taskPC[r][2] = "failed"
        /\ gProcRuntimeData[r].restartCount = 1
        /\ gProcRuntimeData[r].error

\* C20: when launchProcessAndWait returns because its process could not be
\* started, the record has error = true, done = false and timeout = false;
\* they stay so, as no child of the record ever ends.
C20_StartFailureOfWait ==
    /\ [](\A r \in WaitRecords :
            (taskPC[r] \in {<<"returned">>, <<"done">>} /\ processState[r] = "none") =>
                /\ gProcRuntimeData[r].error
                /\ ~gProcRuntimeData[r].done
                /\ ~gProcRuntimeData[r].timeout)
    /\ [][\A r \in WaitRecords :
            (taskPC[r] = <<"lock">> /\ taskPC'[r] = <<"returned">>) =>
                /\ processState'[r] = "none" /\ osAlive'[r] = {}
                /\ gRuntimeDatatMux' = NoTask
                /\ gProcRuntimeData'[r].error]_vars

\* the launcher of a run-and-wait record has returned after a failed start,
\* and a ShutdownAll pass has visited the record since
C20_Witness ==
    \E r \in WaitRecords :
        /\ taskPC[r] = <<"done">> /\ processState[r] = "none"
        /\ gProcRuntimeData[r].error /\ ~gProcRuntimeData[r].active
        /\ sd.calls >= 1

\* C21: done is never set on a fire-and-forget record; on a run-and-wait
\* record it is set only when the launcher has returned from a run whose child
\* has ended; and a done that is set stays set in every step, those of
\* ShutdownAll included.
C21_DoneIsStable ==
    /\ [](\A r \in Registered :
            gProcRuntimeData[r].done =>
                /\ r \in WaitRecords
                /\ taskPC[r] \in {<<"returned">>, <<"done">>}
                /\ processState[r] # "none")
    /\ [][\A r \in Registered :
            gProcRuntimeData[r].done => gProcRuntimeData'[r].done]_vars

\* a run-and-wait record is done and a ShutdownAll pass has since set it
\* inactive and returned
C21_Witness ==
    \E r \in WaitRecords :
        /\ gProcRuntimeData[r].done
        /\ ~gProcRuntimeData[r].active
        /\ sd.pc = "returned"

\* C22 (as stated): no two calls of GetLogFileForProcess get the same file
\* name; a launch never re-creates the log file of an earlier launch.
C22_DistinctSinkNames ==
    \A i, j \in 1..Len(created) : i # j => created[i] # created[j]

\* C23 (as stated): once a shutdown signal has arrived and ShutdownAll has
\* begun, main eventually returns, unless the program has died before.
C23_MainReturns ==
    (sd.pc # "idle") ~> (mainPC = "exited" \/ panicked)

\* C24 (as stated): at most one OS process that the supervisor started for a
\* fire-and-forget record is running at any time.
C24_OneInstance ==
    \A r \in NoWaitRecords : Cardinality(osAlive[r]) <= 1

\* the launch goroutines that are inside the bounded run of launchProcessAndWait
InBoundedRun ==
    {t \in Registered \X TaskIds : t[2] <= Len(taskPC[t[1]]) /\ taskPC[t[1]][t[2]] = "run"}

\* the run-and-wait processes that are running
WaitProcesses == {t \in WaitRecords \X TaskIds : t[2] \in osAlive[t[1]]}

\* C25: at most one launch goroutine is inside the bounded run of
\* launchProcessAndWait and at most one run-and-wait process is running; while
\* there is one, ShutdownAll is not inside its pass over the registry.
C25_OneBoundedRun ==
    /\ Cardinality(InBoundedRun) <= 1
    /\ Cardinality(WaitProcesses) <= 1
    /\ (InBoundedRun # {} \/ WaitProcesses # {}) => ~ShutdownAccessing

\* one run-and-wait process is inside its bounded run while the launcher of
\* another run-and-wait record and ShutdownAll both wait for the lock
C25_Witness ==
    /\ sd.pc = "lock"
    /\ \E r, q \in WaitRecords :
          /\ r # q
          /\ taskPC[r] = <<"run">> /\ osAlive[r] = {1}
          /\ taskPC[q] = <<"lock">>

====
